---- MODULE Spec2Model ----
(***************************************************************************)
(* A model of the threaded FFmpeg input of hacktv (src/ffmpeg.c): the two  *)
(* packet queues, the four frame double buffers, the input, decoder and    *)
(* scaler/resampler threads, and the calls the renderer makes              *)
(* (read_video, read_audio, eof, close).                                   *)
(*                                                                         *)
(* Every critical section (mutex lock .. unlock or cond_wait) is one       *)
(* atomic step.  A thread inside pthread_cond_wait has a "..._wait"        *)
(* program counter; pthread_cond_signal moves exactly one of the threads   *)
(* waiting on that condition variable back to the head of its wait loop.   *)
(***************************************************************************)
EXTENDS Integers, Sequences, FiniteSets, TLC

VARIABLES
    has_stream,     \* av->video_stream / av->audio_stream != NULL
    src,            \* packets av_read_frame has still to deliver
    tb,             \* stream time base denominator per stream (num = 1)
    q,              \* video_queue / audio_queue
    input_stall,    \* av->input_stall
    thread_abort,   \* av->thread_abort
    db,             \* the four _frame_dbuffer_t: ready, repeat, abort, frame[2]
    slots,          \* content of the two AVFrame of each double buffer
    pc,             \* position of every thread
    in_pkt,         \* _input_thread: pkt and the queue it is written to
    dec,            \* per decoder thread: pkt, ppkt, frame, codec state
    vs,             \* _video_scaler_thread locals: frame, pts
    as,             \* _audio_scaler_thread locals: frame, pts, drop, count
    swr,            \* samples buffered inside the resampler
    start_time,     \* video_start_time / audio_start_time
    paused,         \* av->paused
    eof_flag,       \* video_eof / audio_eof
    rend,           \* renderer: last results of read_video/read_audio/eof
    hist            \* history: what was written, read, published, taken

vars == <<has_stream, src, tb, q, input_stall, thread_abort, db, slots, pc,
          in_pkt, dec, vs, as, swr, start_time, paused, eof_flag, rend, hist>>

----------------------------------------------------------------------------
(* Program constants *)

\* #define MAX_QUEUE_SIZE (15 * 1024 * 1024)
MAX_QUEUE_SIZE == 15 * 1024 * 1024

\* sizeof(_packet_queue_item_t): an AVPacket (104 bytes) and a pointer
PACKET_QUEUE_ITEM_SIZE == 112

\* #define AVSEEK_FWD 60
AVSEEK_FWD == 60

\* AV_TIME_BASE * 0.020: the allowed error, in microseconds
ALLOWED_ERROR_US == 20000

\* AV_TIME_BASE
AV_TIME_BASE == 1000000

(* Bounds of the model *)

\* longest source file with a video and an audio stream, in packets
MaxPkts == 1

\* longest source file with a video stream only, in packets
VideoPkts == 3

\* longest source file with one stream when close() may be called
ClosePkts == 2

\* longest source file with an audio stream only
AudioPkts == 2

\* longest source file when the renderer presses keys
KeyPkts == 1

\* keys the renderer may press (pause/resume, seek forward, seek back)
MaxKeys == 2

\* most video packets of a file whose audio comes first, if at all
StarvePkts == 5

\* video packets that follow the packet the codec rejects
ErrPkts == 2

\* timestamp of the pictures that come in pairs
StalePts == 1

\* times av_read_frame answers EAGAIN
MaxAgain == 1

\* audio packets of the file played with the keyboard
PausePkts == 1

\* largest presentation timestamp of a source packet (stream time base)
MaxPts == 2

\* frames the codec may hold back before it must output one
DecCap == 2

Streams == {"video", "audio"}
Buffers == {"in_video", "out_video", "in_audio", "out_audio"}
Threads == {"input", "vdec", "vscaler", "adec", "ascaler", "rend"}

NoThread == "nobody"

\* the value of a packet variable that holds no packet
NoPkt == [id |-> 0, stream |-> "none", size |-> 0, pts |-> 0, nb |-> 0, bad |-> FALSE]

\* AV_NOPTS_VALUE (INT64_MIN in FFmpeg), a timestamp no packet carries
AV_NOPTS_VALUE == -(2^20)

\* the value of a frame variable that holds no frame
NoFrame == [id |-> 0, pts |-> 0, nb |-> 0]

\* packet sizes: two of 6 MiB fit in a queue and a third does not; one of
\* 8 MiB fills a queue; one of 16 MiB is larger than MAX_QUEUE_SIZE
Mi == 1024 * 1024

DecThread(s) == IF s = "video" THEN "vdec" ELSE "adec"
InBuf(s)  == IF s = "video" THEN "in_video" ELSE "in_audio"
OutBuf(s) == IF s = "video" THEN "out_video" ELSE "out_audio"

----------------------------------------------------------------------------
(* Condition variables *)

\* the condition variable a blocked thread sleeps on ("none": it runs)
WaitsOn(t, p) ==
    CASE p \in {"in_wait", "dec_rwait"} -> "av"
      [] p \in {"dec_bwait", "dec_pwait"} ->
            IF t = "vdec" THEN "in_video" ELSE "in_audio"
      [] p = "vs_fwait" -> "in_video"
      [] p \in {"vs_rwait", "vs_bwait", "vs_pwait"} -> "out_video"
      [] p = "as_fwait" -> "in_audio"
      [] p \in {"as_bwait", "as_pwait"} -> "out_audio"
      [] p = "r_vwait" -> "out_video"
      [] p = "r_await" -> "out_audio"
      [] OTHER -> "none"

\* where a woken thread resumes: the head of the loop around cond_wait
WokenPc(p) ==
    CASE p = "in_wait"   -> "in_write"
      [] p = "dec_rwait" -> "dec_read"
      [] p = "dec_bwait" -> "dec_back"
      [] p = "dec_pwait" -> "dec_ready"
      [] p = "vs_fwait"  -> "vs_flip"
      [] p = "vs_rwait"  -> "vs_rep"
      [] p = "vs_bwait"  -> "vs_back"
      [] p = "vs_pwait"  -> "vs_ready"
      [] p = "as_fwait"  -> "as_flip"
      [] p = "as_bwait"  -> "as_back"
      [] p = "as_pwait"  -> "as_ready"
      [] p = "r_vwait"   -> "r_vflip"
      [] p = "r_await"   -> "r_aflip"
      [] OTHER -> p

Waiters(c) == {t \in Threads : WaitsOn(t, pc[t]) = c}

\* pthread_cond_signal(c): the threads it may wake (one of the waiters)
CondSignal(c) == IF Waiters(c) = {} THEN {NoThread} ELSE Waiters(c)

\* the program counters after `self` moved to `next` and `w` was woken
Step(self, next, w) ==
    IF w = NoThread \/ w = self
    THEN [pc EXCEPT ![self] = next]
    ELSE [pc EXCEPT ![self] = next, ![w] = WokenPc(pc[w])]

----------------------------------------------------------------------------
(* _packet_queue_t *)

PacketQueueInit == [items |-> <<>>, length |-> 0, size |-> 0, eof |-> 0, abort |-> 0]

\* a write that never waits for room
WriteBlocksNever(qu, pkt) == FALSE

\* the wait condition of _packet_queue_write
WriteBlocks(qu, pkt) ==
    qu.abort = 0 /\ qu.size + pkt.size + PACKET_QUEUE_ITEM_SIZE > MAX_QUEUE_SIZE

\* a write that reports success whatever the abort flag
WriteResultIgnoresAbort(qu) == 0

\* what _packet_queue_write returns for a packet once it has stopped waiting:
\* -2 (the packet is unreferenced, the queue untouched) or 0 (it is added)
PacketQueueWriteResult(qu) == IF qu.abort = 1 THEN -2 ELSE 0

\* the item added at the head of the list
EnqueueFront(items, pkt) == <<pkt>> \o items

\* the list after the item is added to the end of the queue
Enqueue(items, pkt) == Append(items, pkt)

\* _packet_queue_write, the queue after the packet is added
PacketQueueAdd(qu, pkt) ==
    [qu EXCEPT !.items = Enqueue(qu.items, pkt),
               !.length = qu.length + 1,
               !.size = qu.size + pkt.size + PACKET_QUEUE_ITEM_SIZE]

\* _packet_queue_read, the queue after the first item is popped
PacketQueuePop(qu) ==
    [qu EXCEPT !.items = Tail(qu.items),
               !.length = qu.length - 1,
               !.size = qu.size - Head(qu.items).size - PACKET_QUEUE_ITEM_SIZE]

----------------------------------------------------------------------------
(* _frame_dbuffer_t *)

\* _frame_dbuffer_init: frame[0] and frame[1] are two distinct AVFrame
FrameDbufferInit == [ready |-> 0, repeat |-> 0, abort |-> 0, frame |-> <<0, 1>>]

\* a freshly allocated AVFrame
EMPTY == [st |-> "empty", id |-> 0, n |-> 0, pts |-> 0]

\* an AVFrame the producer is writing
HALF == [st |-> "half", id |-> 0, n |-> 0, pts |-> 0]

\* an AVFrame holding unit `id` (n: its samples, for audio; pts: its timestamp)
Full(id, n, pts) == [st |-> "full", id |-> id, n |-> n, pts |-> pts]

\* a back_buffer that does not wait for the ready flag
BackBufferBlocksNever(d) == FALSE

\* the wait condition of _frame_dbuffer_back_buffer
BackBufferBlocks(d) == d.ready # 0 /\ d.abort = 0

\* the frame _frame_dbuffer_back_buffer returns: d->frame[1] of the C code
\* (sequences count from 1: frame[1] is the front, frame[2] the back)
BackBufferFrame(d) == d.frame[2]

\* d->frame[0] of the C code, the front
FrontFrame(d) == d.frame[1]

\* a publish that does not wait for the ready flag
ReadyBlocksNever(d) == FALSE

\* the wait condition of _frame_dbuffer_ready
ReadyBlocks(d) == d.ready # 0 /\ d.abort = 0

\* _frame_dbuffer_ready, after its wait
FrameDbufferReady(d, repeat) == [d EXCEPT !.ready = 1, !.repeat = repeat]

\* the wait condition of _frame_dbuffer_flip
FlipBlocks(d) == d.ready = 0 /\ d.abort = 0

\* a flip that swaps whatever the repeat flag says
FlipSwapsAlways(d) == TRUE

\* whether _frame_dbuffer_flip swaps the frames
FlipSwaps(d) == d.repeat = 0

\* _frame_dbuffer_flip, after its wait, when abort is not set
FrameDbufferFlip(d) ==
    [d EXCEPT !.frame = IF FlipSwaps(d) THEN <<d.frame[2], d.frame[1]>> ELSE d.frame,
              !.ready = 0]

\* _frame_dbuffer_abort
FrameDbufferAbort(d) == [d EXCEPT !.abort = 1]

----------------------------------------------------------------------------
(* av_rescale_q(a, bq, cq) for time bases 1/bden and 1/cden:                *)
(* a * cden / bden rounded to nearest, halves away from zero                *)

Abs(x) == IF x < 0 THEN -x ELSE x

Min(S) == CHOOSE x \in S : \A y \in S : x <= y

Rescale(a, bden, cden) ==
    LET n == (2 * Abs(a) * cden + bden) \div (2 * bden)
    IN  IF a < 0 THEN -n ELSE n

----------------------------------------------------------------------------
(* The state after av_ffmpeg_open *)

\* the source files of at most n packets: packet i has id i, a video packet
\* has no samples, timestamps do not decrease within a stream, and a packet
\* the codec cannot decode is `bad`
Tapes(n, streams, sizes, ptss, nbs, bads) ==
    UNION { { t \in [1..k -> [id : 1..k, stream : streams, size : sizes,
                              pts : ptss, nb : nbs, bad : bads]] :
                /\ \A i \in 1..k : t[i].id = i /\ (t[i].stream = "video" => t[i].nb = Min(nbs))
                /\ \A i, j \in 1..k :
                      (i < j /\ t[i].stream = t[j].stream) => t[i].pts <= t[j].pts }
            : k \in 0..n }

DecInit == [pkt |-> NoPkt, ppkt |-> "NULL", frame |-> NoFrame, buf |-> <<>>,
            draining |-> FALSE, wslot |-> 0]

HistInit ==
    [written |-> [s \in Streams |-> <<>>],
     readlog |-> [s \in Streams |-> <<>>],
     unread  |-> [d \in Buffers |-> 0],
     held    |-> [d \in Buffers |-> -1],
     last    |-> [d \in Buffers |-> [slot |-> -1, c |-> EMPTY, repeat |-> 0]],
     prev    |-> [d \in Buffers |-> [slot |-> -1, c |-> EMPTY, repeat |-> 0]],
     vunit   |-> [d |-> -1, log |-> <<>>, adv |-> 0],
     vlog    |-> <<>>,
     vpts    |-> <<>>,
     aunit   |-> [d |-> 0, nb |-> 0, ev |-> <<>>],
     atclose |-> {},
     again   |-> 0,
     inited  |-> {},
     seeked  |-> 0]

InitWith(hs, tapes, tbs, starts, keys, kb) ==
    /\ has_stream = hs
    /\ src \in tapes
    /\ tb \in tbs
    /\ q = [s \in Streams |-> PacketQueueInit]
    /\ input_stall = 0
    /\ thread_abort = 0
    /\ db = [d \in Buffers |-> FrameDbufferInit]
    /\ slots = [d \in Buffers |-> [i \in 0..1 |-> EMPTY]]
    /\ pc = [t \in Threads |->
               CASE t = "input" -> "in_loop"
                 [] t = "vdec" -> IF hs["video"] THEN "dec_loop" ELSE "off"
                 [] t = "adec" -> IF hs["audio"] THEN "dec_loop" ELSE "off"
                 [] t = "vscaler" -> IF hs["video"] THEN "vs_flip" ELSE "off"
                 [] t = "ascaler" -> IF hs["audio"] THEN "as_flip" ELSE "off"
                 [] OTHER -> "r_idle"]
    /\ in_pkt = NoPkt
    /\ dec = [s \in Streams |-> DecInit]
    /\ vs = [frame |-> NoFrame, pts |-> 0, wslot |-> 0]
    /\ as = [frame |-> NoFrame, pts |-> 0, drop |-> 0, count |-> 0, r |-> 0, wslot |-> 0]
    /\ swr = 0
    /\ start_time \in starts
    /\ paused = 0
    /\ eof_flag = [s \in Streams |-> 0]
    /\ rend = [eof |-> 0, vret |-> "none", vslot |-> -1, aret |-> "none", keys |-> keys,
               kb |-> kb,
               last_paused |-> 0, cstep |-> 0, nav |-> 0, ld |-> 0]
    /\ hist = [HistInit EXCEPT !.inited = {"video_queue", "audio_queue"}
                              \cup {InBuf(s) : s \in {x \in Streams : hs[x]}}
                              \cup {OutBuf(s) : s \in {x \in Streams : hs[x]}}]

----------------------------------------------------------------------------
(* _input_thread *)

\* while(av->thread_abort == 0) { r = av_read_frame(...); ... route the packet }
InLoop ==
    /\ pc["input"] = "in_loop"
    /\ IF thread_abort # 0 \/ src = <<>>
       THEN /\ pc' = [pc EXCEPT !["input"] = "in_eofv"]
            /\ UNCHANGED <<src, in_pkt>>
       ELSE /\ src' = Tail(src)
            /\ IF has_stream[Head(src).stream]
               THEN /\ in_pkt' = Head(src)
                    /\ pc' = [pc EXCEPT !["input"] = "in_write"]
               ELSE /\ in_pkt' = NoPkt
                    /\ pc' = pc
    /\ UNCHANGED <<has_stream, tb, q, input_stall, thread_abort, db, slots, dec,
                   vs, as, swr, start_time, paused, eof_flag, rend, hist>>

\* r == AVERROR(EAGAIN): av_usleep(10000); continue;
InReadAgain ==
    /\ pc["input"] = "in_loop"
    /\ thread_abort = 0
    /\ hist.again < MaxAgain
    /\ hist' = [hist EXCEPT !.again = @ + 1]
    /\ UNCHANGED <<has_stream, src, tb, q, input_stall, thread_abort, db, slots, pc,
                   in_pkt, dec, vs, as, swr, start_time, paused, eof_flag, rend>>

\* av_read_frame fails (r < 0, not EAGAIN) although packets remain
InReadError ==
    /\ pc["input"] = "in_loop"
    /\ thread_abort = 0
    /\ src # <<>>
    /\ pc' = [pc EXCEPT !["input"] = "in_eofv"]
    /\ UNCHANGED <<has_stream, src, tb, q, input_stall, thread_abort, db, slots,
                   in_pkt, dec, vs, as, swr, start_time, paused, eof_flag, rend, hist>>

\* _packet_queue_write(av, q, &pkt), from its wait loop on
InWrite ==
    /\ pc["input"] = "in_write"
    /\ LET s == in_pkt.stream IN
       IF WriteBlocks(q[s], in_pkt)
       THEN /\ input_stall' = 1
            /\ \E w \in CondSignal("av") : pc' = Step("input", "in_wait", w)
            /\ UNCHANGED <<q, in_pkt, hist>>
       ELSE /\ input_stall' = 0
            /\ \E w \in CondSignal("av") : pc' = Step("input", "in_loop", w)
            /\ in_pkt' = NoPkt
            /\ IF PacketQueueWriteResult(q[s]) = -2
               THEN UNCHANGED <<q, hist>>
               ELSE /\ q' = [q EXCEPT ![s] = PacketQueueAdd(q[s], in_pkt)]
                    /\ hist' = [hist EXCEPT !.written[s] = Append(@, in_pkt.id)]
    /\ UNCHANGED <<has_stream, src, tb, thread_abort, db, slots, dec,
                   vs, as, swr, start_time, paused, eof_flag, rend>>

\* an input thread that ends after the video queue's eof
InEofVideoOnly ==
    /\ pc["input"] = "in_eofv"
    /\ q' = [q EXCEPT !["video"].eof = 1]
    /\ \E w \in CondSignal("av") : pc' = Step("input", "done", w)
    /\ UNCHANGED <<has_stream, src, tb, input_stall, thread_abort, db, slots, in_pkt,
                   dec, vs, as, swr, start_time, paused, eof_flag, rend, hist>>

\* _packet_queue_write(av, &av->video_queue, NULL), then the audio queue's
InEof ==
    /\ pc["input"] \in {"in_eofv", "in_eofa"}
    /\ LET s == IF pc["input"] = "in_eofv" THEN "video" ELSE "audio"
           next == IF pc["input"] = "in_eofv" THEN "in_eofa" ELSE "done"
       IN /\ q' = [q EXCEPT ![s].eof = 1]
          /\ \E w \in CondSignal("av") : pc' = Step("input", next, w)
    /\ UNCHANGED <<has_stream, src, tb, input_stall, thread_abort, db, slots, in_pkt,
                   dec, vs, as, swr, start_time, paused, eof_flag, rend, hist>>

----------------------------------------------------------------------------
(* _video_decode_thread / _audio_decode_thread (s: the stream) *)

\* the head of the loop: while(av->thread_abort == 0) { if(ppkt == NULL) read ...
LoopHead(ppkt) ==
    IF thread_abort # 0 THEN "dec_exit"
    ELSE IF ppkt = "NULL" THEN "dec_read" ELSE "dec_send"

\* the thread starts: the first test of its loop
DecLoop(s) ==
    /\ pc[DecThread(s)] = "dec_loop"
    /\ pc' = [pc EXCEPT ![DecThread(s)] = LoopHead(dec[s].ppkt)]
    /\ UNCHANGED <<has_stream, src, tb, q, input_stall, thread_abort, db, slots, in_pkt,
                   dec, vs, as, swr, start_time, paused, eof_flag, rend, hist>>

\* a read that takes a stalled input for the end of the stream
ReadEmptyStallIsEof(qu, stall) ==
    IF stall # 0 \/ qu.abort = 1 \/ qu.eof = 1
    THEN (IF qu.abort = 1 THEN "abort" ELSE "eof")
    ELSE "wait"

\* what _packet_queue_read does with an empty queue:
\* "stall" (return 0), "abort" (-2), "eof" (-1) or "wait"
ReadEmpty(qu, stall) ==
    IF stall # 0 THEN "stall"
    ELSE IF qu.abort = 1 \/ qu.eof = 1
         THEN (IF qu.abort = 1 THEN "abort" ELSE "eof")
         ELSE "wait"

\* r = _packet_queue_read(av, q, &pkt); ppkt = (r >= 0 ? &pkt : NULL)
DecRead(s) ==
    LET t == DecThread(s) IN
    /\ pc[t] = "dec_read"
    /\ IF q[s].length = 0
       THEN LET r == ReadEmpty(q[s], input_stall) IN
            /\ pc' = [pc EXCEPT ![t] =
                        CASE r = "wait" -> "dec_rwait"
                          [] r = "abort" -> "dec_exit"
                          [] OTHER -> "dec_send"]
            /\ dec' = [dec EXCEPT ![s].ppkt =
                        IF r = "stall" THEN "stale" ELSE dec[s].ppkt]
            /\ UNCHANGED <<q, hist>>
       ELSE /\ q' = [q EXCEPT ![s] = PacketQueuePop(q[s])]
            /\ dec' = [dec EXCEPT ![s].pkt = Head(q[s].items), ![s].ppkt = "pkt"]
            /\ hist' = [hist EXCEPT !.readlog[s] = Append(@, Head(q[s].items).id)]
            /\ \E w \in CondSignal("av") : pc' = Step(t, "dec_send", w)
    /\ UNCHANGED <<has_stream, src, tb, input_stall, thread_abort, db, slots, in_pkt,
                   vs, as, swr, start_time, paused, eof_flag, rend>>

\* the statuses avcodec_send_packet may return for this packet
SendOutcomes(d) ==
    IF d.draining THEN {"eof"}
    ELSE CASE d.ppkt = "NULL" -> {"flush"}
           [] d.ppkt = "stale" -> {"flush", "error"}
           [] d.pkt.bad -> {"error"}
           [] OTHER -> (IF Len(d.buf) < DecCap THEN {"accept"} ELSE {})
                       \cup (IF d.buf # <<>> THEN {"again"} ELSE {})

\* the statuses avcodec_receive_frame may return
ReceiveOutcomes(buf, draining) ==
    IF buf = <<>>
    THEN (IF draining THEN {"eof"} ELSE {"again"})
    ELSE {"frame"} \cup (IF ~draining /\ Len(buf) < DecCap THEN {"again"} ELSE {})

\* whether the decode thread breaks out when avcodec_send_packet fails
\* (the video thread does, the audio thread does not check)
SendFailureBreaks(s) == s = "video"

\* avcodec_send_packet, av_packet_unref, avcodec_receive_frame and the filter;
\* without a frame, the next test of the loop
DecSend(s) ==
    LET t == DecThread(s)
        d == dec[s]
    IN
    /\ pc[t] = "dec_send"
    /\ \E o \in SendOutcomes(d) :
         LET buf1 == IF o = "accept"
                     THEN Append(d.buf, [id |-> d.pkt.id, pts |-> d.pkt.pts, nb |-> d.pkt.nb])
                     ELSE d.buf
             dr1  == d.draining \/ o = "flush"
             pp1  == IF d.ppkt # "NULL" /\ o # "again" THEN "NULL" ELSE d.ppkt
         IN
         IF o \in {"eof", "error"} /\ SendFailureBreaks(s)
         THEN /\ dec' = [dec EXCEPT ![s].ppkt = pp1]
              /\ pc' = [pc EXCEPT ![t] = "dec_exit"]
         ELSE \E r \in ReceiveOutcomes(buf1, dr1) :
                /\ dec' = [dec EXCEPT ![s].ppkt = pp1,
                                      ![s].draining = dr1,
                                      ![s].buf = IF r = "frame" THEN Tail(buf1) ELSE buf1,
                                      ![s].frame = IF r = "frame" THEN Head(buf1) ELSE d.frame]
                /\ pc' = [pc EXCEPT ![t] =
                            CASE r = "frame" -> "dec_back"
                              [] r = "again" -> LoopHead(pp1)
                              [] OTHER -> "dec_exit"]
    /\ UNCHANGED <<has_stream, src, tb, q, input_stall, thread_abort, db, slots, in_pkt,
                   vs, as, swr, start_time, paused, eof_flag, rend, hist>>

\* _frame_dbuffer_back_buffer(in buffer); av_frame_ref() starts writing it
DecBack(s) ==
    LET t == DecThread(s)
        b == InBuf(s)
    IN
    /\ pc[t] = "dec_back"
    /\ IF BackBufferBlocks(db[b])
       THEN /\ pc' = [pc EXCEPT ![t] = "dec_bwait"]
            /\ UNCHANGED <<dec, slots>>
       ELSE /\ pc' = [pc EXCEPT ![t] = "dec_write"]
            /\ dec' = [dec EXCEPT ![s].wslot = BackBufferFrame(db[b])]
            /\ slots' = [slots EXCEPT ![b][BackBufferFrame(db[b])] = HALF]
    /\ UNCHANGED <<has_stream, src, tb, q, input_stall, thread_abort, db, in_pkt,
                   vs, as, swr, start_time, paused, eof_flag, rend, hist>>

\* av_frame_ref() completes: the back buffer holds the decoded frame
DecWrite(s) ==
    LET t == DecThread(s) IN
    /\ pc[t] = "dec_write"
    /\ slots' = [slots EXCEPT ![InBuf(s)][dec[s].wslot] = Full(dec[s].frame.id, dec[s].frame.nb, dec[s].frame.pts)]
    /\ pc' = [pc EXCEPT ![t] = "dec_ready"]
    /\ UNCHANGED <<has_stream, src, tb, q, input_stall, thread_abort, db, in_pkt, dec,
                   vs, as, swr, start_time, paused, eof_flag, rend, hist>>

\* _frame_dbuffer_ready(in buffer, 0), and the next test of the loop
DecReady(s) ==
    LET t == DecThread(s)
        b == InBuf(s)
    IN
    /\ pc[t] = "dec_ready"
    /\ IF ReadyBlocks(db[b])
       THEN /\ pc' = [pc EXCEPT ![t] = "dec_pwait"]
            /\ UNCHANGED <<db, hist>>
       ELSE /\ db' = [db EXCEPT ![b] = FrameDbufferReady(db[b], 0)]
            /\ hist' = [hist EXCEPT !.unread[b] = @ + 1]
            /\ \E w \in CondSignal(b) : pc' = Step(t, LoopHead(dec[s].ppkt), w)
    /\ UNCHANGED <<has_stream, src, tb, q, input_stall, thread_abort, slots, in_pkt, dec,
                   vs, as, swr, start_time, paused, eof_flag, rend>>

\* the loop has ended: _frame_dbuffer_abort(in buffer)
DecExit(s) ==
    LET t == DecThread(s)
        b == InBuf(s)
    IN
    /\ pc[t] = "dec_exit"
    /\ db' = [db EXCEPT ![b] = FrameDbufferAbort(db[b])]
    /\ \E w \in CondSignal(b) : pc' = Step(t, "done", w)
    /\ UNCHANGED <<has_stream, src, tb, q, input_stall, thread_abort, slots, in_pkt, dec,
                   vs, as, swr, start_time, paused, eof_flag, rend, hist>>

----------------------------------------------------------------------------
(* A take: _frame_dbuffer_flip on buffer b, and what the history keeps *)

\* the history after a successful flip of buffer b
HistTake(b) ==
    LET nd == FrameDbufferFlip(db[b]) IN
    [hist EXCEPT !.unread[b] = @ - 1,
                 !.held[b] = FrontFrame(nd),
                 !.prev[b] = hist.last[b],
                 !.last[b] = [slot |-> FrontFrame(nd),
                              c |-> slots[b][FrontFrame(nd)],
                              repeat |-> db[b].repeat]]

\* the history after a publish on buffer b
HistPublish(h, b) == [h EXCEPT !.unread[b] = @ + 1]

----------------------------------------------------------------------------
(* _video_scaler_thread *)

\* pts = av_rescale_q(pts, stream time base, video_time_base) - video_start_time
VideoOffset(f) == Rescale(f.pts, tb.video, tb.vout) - start_time["video"]

\* a scaler that skips no picture
VideoStaleNever(f) == FALSE

\* pts < 0: "This frame is in the past. Skip it"
VideoStale(f) == f.pts # AV_NOPTS_VALUE /\ VideoOffset(f) < 0

\* one repeat too few
VideoRepeatsShort(f) ==
    IF f.pts = AV_NOPTS_VALUE \/ VideoOffset(f) = 0 THEN 0 ELSE VideoOffset(f) - 1

\* the number of times the previous frame is repeated before frame f
VideoRepeats(f) == IF f.pts = AV_NOPTS_VALUE THEN 0 ELSE VideoOffset(f)

\* while((frame = _frame_dbuffer_flip(&av->in_video_buffer)) != NULL) { pts = ...
VsFlip ==
    LET b == "in_video" IN
    /\ pc["vscaler"] = "vs_flip"
    /\ IF FlipBlocks(db[b])
       THEN /\ pc' = [pc EXCEPT !["vscaler"] = "vs_fwait"]
            /\ UNCHANGED <<db, vs, hist>>
       ELSE IF db[b].abort # 0
       THEN /\ pc' = [pc EXCEPT !["vscaler"] = "vs_exit"]
            /\ UNCHANGED <<db, vs, hist>>
       ELSE LET nd == FrameDbufferFlip(db[b])
                c  == slots[b][FrontFrame(nd)]
                f  == [id |-> c.id, pts |-> c.pts, nb |-> c.n]
            IN
            /\ db' = [db EXCEPT ![b] = nd]
            /\ vs' = [vs EXCEPT !.frame = f, !.pts = VideoRepeats(f)]
            /\ hist' = [HistTake(b) EXCEPT
                          !.vunit = [d |-> IF VideoStale(f) \/ f.pts = AV_NOPTS_VALUE
                                           THEN -1 ELSE VideoOffset(f),
                                     log |-> <<>>, adv |-> 0],
                          !.vpts = Append(@, f.pts)]
            /\ \E w \in CondSignal(b) :
                 pc' = Step("vscaler",
                            IF VideoStale(f) THEN "vs_flip"
                            ELSE IF VideoRepeats(f) > 0 THEN "vs_rep" ELSE "vs_back", w)
    /\ UNCHANGED <<has_stream, src, tb, q, input_stall, thread_abort, slots, in_pkt, dec,
                   as, swr, start_time, paused, eof_flag, rend>>

\* while(pts > 0) { _frame_dbuffer_ready(&av->out_video_buffer, 1);
\*                  av->video_start_time++; pts--; }
VsRep ==
    LET b == "out_video" IN
    /\ pc["vscaler"] = "vs_rep"
    /\ IF ReadyBlocks(db[b])
       THEN /\ pc' = [pc EXCEPT !["vscaler"] = "vs_rwait"]
            /\ UNCHANGED <<db, vs, start_time, hist>>
       ELSE /\ db' = [db EXCEPT ![b] = FrameDbufferReady(db[b], 1)]
            /\ start_time' = [start_time EXCEPT !["video"] = @ + 1]
            /\ vs' = [vs EXCEPT !.pts = @ - 1]
            /\ hist' = [HistPublish(hist, b) EXCEPT !.vunit.log = Append(@, 1),
                                                    !.vunit.adv = @ + 1,
                                                    !.vlog = Append(@, 1)]
            /\ \E w \in CondSignal(b) :
                 pc' = Step("vscaler", IF vs.pts - 1 > 0 THEN "vs_rep" ELSE "vs_back", w)
    /\ UNCHANGED <<has_stream, src, tb, q, input_stall, thread_abort, slots, in_pkt, dec,
                   as, swr, paused, eof_flag, rend>>

\* oframe = _frame_dbuffer_back_buffer(&av->out_video_buffer); sws_scale starts
VsBack ==
    LET b == "out_video" IN
    /\ pc["vscaler"] = "vs_back"
    /\ IF BackBufferBlocks(db[b])
       THEN /\ pc' = [pc EXCEPT !["vscaler"] = "vs_bwait"]
            /\ UNCHANGED <<vs, slots>>
       ELSE /\ pc' = [pc EXCEPT !["vscaler"] = "vs_write"]
            /\ vs' = [vs EXCEPT !.wslot = BackBufferFrame(db[b])]
            /\ slots' = [slots EXCEPT ![b][BackBufferFrame(db[b])] = HALF]
    /\ UNCHANGED <<has_stream, src, tb, q, input_stall, thread_abort, db, in_pkt, dec,
                   as, swr, start_time, paused, eof_flag, rend, hist>>

\* sws_scale and the overlays are done; av_frame_unref(frame)
VsWrite ==
    /\ pc["vscaler"] = "vs_write"
    /\ slots' = [slots EXCEPT !["out_video"][vs.wslot] = Full(vs.frame.id, 0, 0)]
    /\ pc' = [pc EXCEPT !["vscaler"] = "vs_ready"]
    /\ UNCHANGED <<has_stream, src, tb, q, input_stall, thread_abort, db, in_pkt, dec,
                   vs, as, swr, start_time, paused, eof_flag, rend, hist>>

\* _frame_dbuffer_ready(&av->out_video_buffer, 0); av->video_start_time++;
VsReady ==
    LET b == "out_video" IN
    /\ pc["vscaler"] = "vs_ready"
    /\ IF ReadyBlocks(db[b])
       THEN /\ pc' = [pc EXCEPT !["vscaler"] = "vs_pwait"]
            /\ UNCHANGED <<db, start_time, hist>>
       ELSE /\ db' = [db EXCEPT ![b] = FrameDbufferReady(db[b], 0)]
            /\ start_time' = [start_time EXCEPT !["video"] = @ + 1]
            /\ hist' = [HistPublish(hist, b) EXCEPT !.vunit.log = Append(@, 0),
                                                    !.vunit.adv = @ + 1,
                                                    !.vlog = Append(@, 0)]
            /\ \E w \in CondSignal(b) : pc' = Step("vscaler", "vs_flip", w)
    /\ UNCHANGED <<has_stream, src, tb, q, input_stall, thread_abort, slots, in_pkt, dec,
                   vs, as, swr, paused, eof_flag, rend>>

\* the loop has ended: _frame_dbuffer_abort(&av->out_video_buffer)
VsExit ==
    LET b == "out_video" IN
    /\ pc["vscaler"] = "vs_exit"
    /\ db' = [db EXCEPT ![b] = FrameDbufferAbort(db[b])]
    /\ \E w \in CondSignal(b) : pc' = Step("vscaler", "done", w)
    /\ UNCHANGED <<has_stream, src, tb, q, input_stall, thread_abort, slots, in_pkt, dec,
                   vs, as, swr, start_time, paused, eof_flag, rend, hist>>

----------------------------------------------------------------------------
(* _audio_scaler_thread *)

\* av->allowed_error = av_rescale_q(AV_TIME_BASE * 0.020, AV_TIME_BASE_Q, audio_time_base)
AllowedError == Rescale(ALLOWED_ERROR_US, AV_TIME_BASE, tb.aout)

\* pts = av_rescale_q(pts, stream time base, audio_time_base) - audio_start_time
AudioOffset(f) == Rescale(f.pts, tb.audio, tb.aout) - start_time["audio"]

\* next_pts <= 0: "This frame is in the past. Skip it"
AudioStale(f) == f.pts # AV_NOPTS_VALUE /\ AudioOffset(f) + f.nb <= 0

\* a trim of every late frame, however small the error
AudioDropAlways(f) ==
    IF f.pts # AV_NOPTS_VALUE /\ AudioOffset(f) < 0
    THEN -AudioOffset(f) ELSE 0

\* if(pts < -av->allowed_error) drop = -pts;
AudioDrop(f) ==
    IF f.pts # AV_NOPTS_VALUE /\ AudioOffset(f) < -AllowedError
    THEN -AudioOffset(f) ELSE 0

\* silence for every early frame, however small the error
AudioSilenceAlways(f) ==
    IF f.pts # AV_NOPTS_VALUE /\ AudioOffset(f) > 0
    THEN AudioOffset(f) ELSE 0

\* silence one sample short of the gap
AudioSilenceShort(f) ==
    IF f.pts # AV_NOPTS_VALUE /\ AudioOffset(f) >= -AllowedError
                              /\ AudioOffset(f) > AllowedError
    THEN AudioOffset(f) - 1 ELSE 0

\* else if(pts > av->allowed_error): the silence sent to fill the gap
AudioSilence(f) ==
    IF f.pts # AV_NOPTS_VALUE /\ AudioOffset(f) >= -AllowedError
                              /\ AudioOffset(f) > AllowedError
    THEN AudioOffset(f) ELSE 0

\* av->audio_start_time += pts, after the silence
AudioPadAdvance(f) == AudioSilence(f)

\* an entry of the history of one audio unit
Ev(k, n) == [k |-> k, n |-> n, from |-> 0]

\* while((frame = _frame_dbuffer_flip(&av->in_audio_buffer)) != NULL) { ... count -= drop;
AsFlip ==
    LET b == "in_audio" IN
    /\ pc["ascaler"] = "as_flip"
    /\ IF FlipBlocks(db[b])
       THEN /\ pc' = [pc EXCEPT !["ascaler"] = "as_fwait"]
            /\ UNCHANGED <<db, as, swr, start_time, hist>>
       ELSE IF db[b].abort # 0
       THEN /\ pc' = [pc EXCEPT !["ascaler"] = "as_exit"]
            /\ UNCHANGED <<db, as, swr, start_time, hist>>
       ELSE LET nd == FrameDbufferFlip(db[b])
                c  == slots[b][FrontFrame(nd)]
                f  == [id |-> c.id, pts |-> c.pts, nb |-> c.n]
                sil == AudioSilence(f)
            IN
            /\ db' = [db EXCEPT ![b] = nd]
            /\ IF AudioStale(f)
               THEN /\ as' = [as EXCEPT !.frame = f]
                    /\ UNCHANGED <<swr, start_time>>
                    /\ hist' = [HistTake(b) EXCEPT
                                  !.aunit = [d |-> AudioOffset(f), nb |-> f.nb,
                                             ev |-> <<Ev("skip", 0)>>]]
               ELSE /\ as' = [as EXCEPT !.frame = f, !.drop = AudioDrop(f),
                                        !.count = f.nb - AudioDrop(f)]
                    /\ swr' = swr + sil
                    /\ start_time' = [start_time EXCEPT !["audio"] = @ + AudioPadAdvance(f)]
                    /\ hist' = [HistTake(b) EXCEPT
                                  !.aunit = [d |-> IF f.pts = AV_NOPTS_VALUE THEN 0
                                                   ELSE AudioOffset(f),
                                             nb |-> f.nb,
                                             ev |-> (IF sil > 0 THEN <<Ev("silence", sil)>> ELSE <<>>)
                                                    \o (IF AudioPadAdvance(f) # 0
                                                        THEN <<Ev("advance", AudioPadAdvance(f))>>
                                                        ELSE <<>>)]]
            /\ \E w \in CondSignal(b) :
                 pc' = Step("ascaler", IF AudioStale(f) THEN "as_flip" ELSE "as_back", w)
    /\ UNCHANGED <<has_stream, src, tb, q, input_stall, thread_abort, slots, in_pkt, dec,
                   vs, paused, eof_flag, rend>>

\* r = swr_convert(ctx, out, out_count, in, in_count): the samples it returns,
\* given the samples already buffered in the resampler
\* while it is given input it holds back up to tb.delay samples (the filter's
\* look-ahead); a call without input (in = NULL) flushes them
SwrConvert(buffered, out_count, in_count) ==
    LET avail == buffered + in_count
        held  == IF in_count > 0 THEN Min({tb.delay, avail}) ELSE 0
    IN Min({avail - held, out_count})

\* oframe = _frame_dbuffer_back_buffer(&av->out_audio_buffer); r = swr_convert(...)
AsBack ==
    LET b == "out_audio" IN
    /\ pc["ascaler"] = "as_back"
    /\ IF BackBufferBlocks(db[b])
       THEN /\ pc' = [pc EXCEPT !["ascaler"] = "as_bwait"]
            /\ UNCHANGED <<as, swr, slots, hist>>
       ELSE LET r == SwrConvert(swr, tb.ofs, as.count) IN
            /\ swr' = swr + as.count - r
            /\ hist' = [hist EXCEPT !.aunit.ev =
                          IF as.count > 0
                          THEN Append(@, [k |-> "feed", n |-> as.count, from |-> as.drop])
                          ELSE @]
            /\ IF r = 0
               THEN /\ pc' = [pc EXCEPT !["ascaler"] = "as_flip"]
                    /\ as' = [as EXCEPT !.r = 0]
                    /\ UNCHANGED slots
               ELSE /\ pc' = [pc EXCEPT !["ascaler"] = "as_write"]
                    /\ as' = [as EXCEPT !.r = r, !.wslot = BackBufferFrame(db[b])]
                    /\ slots' = [slots EXCEPT ![b][BackBufferFrame(db[b])] = HALF]
    /\ UNCHANGED <<has_stream, src, tb, q, input_stall, thread_abort, db, in_pkt, dec,
                   vs, start_time, paused, eof_flag, rend>>

\* swr_convert has filled the back buffer; oframe->nb_samples = r
AsWrite ==
    /\ pc["ascaler"] = "as_write"
    /\ slots' = [slots EXCEPT !["out_audio"][as.wslot] = Full(as.frame.id, as.r, 0)]
    /\ pc' = [pc EXCEPT !["ascaler"] = "as_ready"]
    /\ UNCHANGED <<has_stream, src, tb, q, input_stall, thread_abort, db, in_pkt, dec,
                   vs, as, swr, start_time, paused, eof_flag, rend, hist>>

\* _frame_dbuffer_ready(&av->out_audio_buffer, 0); av->audio_start_time += count; count = 0;
AsReady ==
    LET b == "out_audio" IN
    /\ pc["ascaler"] = "as_ready"
    /\ IF ReadyBlocks(db[b])
       THEN /\ pc' = [pc EXCEPT !["ascaler"] = "as_pwait"]
            /\ UNCHANGED <<db, as, start_time, hist>>
       ELSE /\ db' = [db EXCEPT ![b] = FrameDbufferReady(db[b], 0)]
            /\ start_time' = [start_time EXCEPT !["audio"] = @ + as.count]
            /\ as' = [as EXCEPT !.count = 0]
            /\ hist' = [HistPublish(hist, b) EXCEPT !.aunit.ev =
                          IF as.count # 0 THEN Append(@, Ev("advance", as.count)) ELSE @]
            /\ \E w \in CondSignal(b) : pc' = Step("ascaler", "as_back", w)
    /\ UNCHANGED <<has_stream, src, tb, q, input_stall, thread_abort, slots, in_pkt, dec,
                   vs, swr, paused, eof_flag, rend>>

\* the loop has ended: _frame_dbuffer_abort(&av->out_audio_buffer)
AsExit ==
    LET b == "out_audio" IN
    /\ pc["ascaler"] = "as_exit"
    /\ db' = [db EXCEPT ![b] = FrameDbufferAbort(db[b])]
    /\ \E w \in CondSignal(b) : pc' = Step("ascaler", "done", w)
    /\ UNCHANGED <<has_stream, src, tb, q, input_stall, thread_abort, slots, in_pkt, dec,
                   vs, as, swr, start_time, paused, eof_flag, rend, hist>>

----------------------------------------------------------------------------
(* The calls of the renderer: _av_ffmpeg_read_video, _av_ffmpeg_read_audio, *)
(* _av_ffmpeg_eof, _av_ffmpeg_close                                         *)

\* the keys kbhit()/getchar() may deliver to one call of read_video
Keys == IF rend.keys > 0 THEN {"none"} \cup rend.kb ELSE {"none"}

\* nav = AVSEEK_FWD or AVSEEK_RWD
Nav(key) == CASE key = "fwd" -> AVSEEK_FWD [] key = "rwd" -> -AVSEEK_FWD [] OTHER -> 0

\* if(av->paused) { frame = av->out_video_buffer.frame[0]; ... last_paused = time(0); }
\* else frame = _frame_dbuffer_flip(&av->out_video_buffer): the renderer after
\* the keyboard and the seek, r being its record after them
AfterSeek(r, p) ==
    IF p # 0
    THEN /\ rend' = [r EXCEPT !.vret = "frame",
                               !.vslot = FrontFrame(db["out_video"]),
                               !.last_paused = 1]
         /\ pc' = [pc EXCEPT !["rend"] = "r_idle"]
    ELSE /\ rend' = r
         /\ pc' = [pc EXCEPT !["rend"] = "r_vflip"]

\* _av_ffmpeg_read_video up to the call of _frame_dbuffer_flip; with a seek
\* key, up to the load of av->video_start_time in av->video_start_time += nav
ReadVideo ==
    /\ pc["rend"] = "r_idle"
    /\ has_stream["video"]
    /\ \E key \in Keys :
         LET p1 == IF key = "space" THEN 1 - paused ELSE paused
             r1 == [rend EXCEPT !.keys = IF key = "none" THEN @ ELSE @ - 1]
         IN
         /\ paused' = p1
         /\ IF Nav(key) # 0
            THEN /\ rend' = [r1 EXCEPT !.nav = Nav(key), !.ld = start_time["video"]]
                 /\ pc' = [pc EXCEPT !["rend"] = "r_seekv"]
            ELSE AfterSeek(r1, p1)
    /\ UNCHANGED <<has_stream, src, tb, q, input_stall, thread_abort, db, slots, in_pkt,
                   dec, vs, as, swr, start_time, eof_flag, hist>>

\* av->video_start_time += nav: the store of the sum, the scaler's writes
\* since the load being overwritten; then the load of av->audio_start_time
SeekVideo ==
    /\ pc["rend"] = "r_seekv"
    /\ start_time' = [start_time EXCEPT !["video"] = rend.ld + rend.nav]
    /\ rend' = [rend EXCEPT !.ld = start_time["audio"]]
    /\ pc' = [pc EXCEPT !["rend"] = "r_seeka"]
    /\ hist' = [hist EXCEPT !.seeked = @ + rend.nav]
    /\ UNCHANGED <<has_stream, src, tb, q, input_stall, thread_abort, db, slots, in_pkt,
                   dec, vs, as, swr, paused, eof_flag>>

\* av->audio_start_time += nav: the store; nav = 0; then the test of av->paused
SeekAudio ==
    /\ pc["rend"] = "r_seeka"
    /\ start_time' = [start_time EXCEPT !["audio"] = rend.ld + rend.nav]
    /\ AfterSeek([rend EXCEPT !.nav = 0, !.ld = 0], paused)
    /\ UNCHANGED <<has_stream, src, tb, q, input_stall, thread_abort, db, slots, in_pkt,
                   dec, vs, as, swr, paused, eof_flag, hist>>

\* frame = _frame_dbuffer_flip(b) in read_video / read_audio, and what follows:
\* if(!frame) { av->..._eof = 1; return(NULL); }
RendFlip(s) ==
    LET b == OutBuf(s)
        at == IF s = "video" THEN "r_vflip" ELSE "r_aflip"
        wt == IF s = "video" THEN "r_vwait" ELSE "r_await"
        ret(v) == IF s = "video"
                  THEN [rend EXCEPT !.vret = v,
                                    !.vslot = IF v = "frame"
                                              THEN FrontFrame(FrameDbufferFlip(db[b]))
                                              ELSE -1]
                  ELSE [rend EXCEPT !.aret = v]
    IN
    /\ pc["rend"] = at
    /\ IF FlipBlocks(db[b])
       THEN /\ pc' = [pc EXCEPT !["rend"] = wt]
            /\ UNCHANGED <<db, rend, eof_flag, hist>>
       ELSE IF db[b].abort # 0
       THEN /\ \E recent \in (IF s = "video" /\ rend.last_paused # 0 THEN BOOLEAN ELSE {FALSE}) :
                 IF recent
                 THEN /\ pc' = [pc EXCEPT !["rend"] = "crashed"]
                      /\ UNCHANGED <<rend, eof_flag>>
                 ELSE /\ pc' = [pc EXCEPT !["rend"] = "r_idle"]
                      /\ eof_flag' = [eof_flag EXCEPT ![s] = 1]
                      /\ rend' = ret("null")
            /\ UNCHANGED <<db, hist>>
       ELSE /\ db' = [db EXCEPT ![b] = FrameDbufferFlip(db[b])]
            /\ hist' = HistTake(b)
            /\ rend' = ret("frame")
            /\ \E w \in CondSignal(b) : pc' = Step("rend", "r_idle", w)
            /\ UNCHANGED eof_flag
    /\ UNCHANGED <<has_stream, src, tb, q, input_stall, thread_abort, slots, in_pkt,
                   dec, vs, as, swr, start_time, paused>>

\* a read_audio that takes a block whether paused or not
ReadAudioWhilePaused ==
    /\ pc["rend"] = "r_idle"
    /\ has_stream["audio"]
    /\ pc' = [pc EXCEPT !["rend"] = "r_aflip"]
    /\ UNCHANGED <<has_stream, src, tb, q, input_stall, thread_abort, db, slots, in_pkt,
                   dec, vs, as, swr, start_time, paused, eof_flag, rend, hist>>

\* _av_ffmpeg_read_audio up to the call of _frame_dbuffer_flip
ReadAudio ==
    /\ pc["rend"] = "r_idle"
    /\ has_stream["audio"]
    /\ IF paused # 0
       THEN /\ rend' = [rend EXCEPT !.aret = "null"]
            /\ pc' = pc
       ELSE /\ pc' = [pc EXCEPT !["rend"] = "r_aflip"]
            /\ rend' = rend
    /\ UNCHANGED <<has_stream, src, tb, q, input_stall, thread_abort, db, slots, in_pkt,
                   dec, vs, as, swr, start_time, paused, eof_flag, hist>>

\* an eof that is satisfied by either stream
AvFfmpegEofAny ==
    IF (has_stream["video"] /\ eof_flag["video"] = 0)
       /\ (has_stream["audio"] /\ eof_flag["audio"] = 0)
    THEN 0 ELSE 1

\* _av_ffmpeg_eof: its return value
AvFfmpegEof ==
    IF (has_stream["video"] /\ eof_flag["video"] = 0)
       \/ (has_stream["audio"] /\ eof_flag["audio"] = 0)
    THEN 0 ELSE 1

\* the renderer asks _av_ffmpeg_eof
Eof ==
    /\ pc["rend"] = "r_idle"
    /\ rend' = [rend EXCEPT !.eof = AvFfmpegEof]
    /\ UNCHANGED <<has_stream, src, tb, q, input_stall, thread_abort, db, slots, pc, in_pkt,
                   dec, vs, as, swr, start_time, paused, eof_flag, hist>>

----------------------------------------------------------------------------
(* _av_ffmpeg_close *)

CStep(op, arg) == [op |-> op, arg |-> arg]

\* a close that frees a stream's queue and buffers before it joins the threads
CloseStreamFreeFirst(s) ==
    IF has_stream[s]
    THEN <<CStep("abort_buffer", InBuf(s)), CStep("abort_buffer", OutBuf(s)),
           CStep("free", s),
           CStep("join", DecThread(s)),
           CStep("join", IF s = "video" THEN "vscaler" ELSE "ascaler")>>
    ELSE <<>>

\* the calls of _av_ffmpeg_close after av->thread_abort = 1, in order
CloseStream(s) ==
    IF has_stream[s]
    THEN <<CStep("abort_buffer", InBuf(s)), CStep("abort_buffer", OutBuf(s)),
           CStep("join", DecThread(s)),
           CStep("join", IF s = "video" THEN "vscaler" ELSE "ascaler"),
           CStep("free", s)>>
    ELSE <<>>

CloseProg ==
    <<CStep("abort_queue", "video"), CStep("abort_queue", "audio"), CStep("join", "input")>>
    \o CloseStream("video") \o CloseStream("audio")

\* the position of close after step i
AfterCStep(i) == IF i >= Len(CloseProg) THEN "closed" ELSE "closing"

\* av->thread_abort = 1;
CloseStart ==
    /\ pc["rend"] = "r_idle"
    /\ thread_abort' = 1
    /\ pc' = [pc EXCEPT !["rend"] = "closing"]
    /\ rend' = [rend EXCEPT !.cstep = 0]
    /\ hist' = [hist EXCEPT !.atclose = {WaitsOn(t, pc[t]) : t \in Threads} \ {"none"}]
    /\ UNCHANGED <<has_stream, src, tb, q, input_stall, db, slots, in_pkt,
                   dec, vs, as, swr, start_time, paused, eof_flag>>

\* _packet_queue_abort(av, q)
CloseAbortQueue ==
    /\ pc["rend"] = "closing"
    /\ LET st == CloseProg[rend.cstep + 1] IN
       /\ st.op = "abort_queue"
       /\ q' = [q EXCEPT ![st.arg].abort = 1]
       /\ \E w \in CondSignal("av") : pc' = Step("rend", AfterCStep(rend.cstep + 1), w)
    /\ rend' = [rend EXCEPT !.cstep = @ + 1]
    /\ UNCHANGED <<has_stream, src, tb, input_stall, thread_abort, db, slots, in_pkt,
                   dec, vs, as, swr, start_time, paused, eof_flag, hist>>

\* _frame_dbuffer_abort(d)
CloseAbortBuffer ==
    /\ pc["rend"] = "closing"
    /\ LET st == CloseProg[rend.cstep + 1] IN
       /\ st.op = "abort_buffer"
       /\ db' = [db EXCEPT ![st.arg] = FrameDbufferAbort(db[st.arg])]
       /\ \E w \in CondSignal(st.arg) : pc' = Step("rend", AfterCStep(rend.cstep + 1), w)
    /\ rend' = [rend EXCEPT !.cstep = @ + 1]
    /\ UNCHANGED <<has_stream, src, tb, q, input_stall, thread_abort, slots, in_pkt,
                   dec, vs, as, swr, start_time, paused, eof_flag, hist>>

\* pthread_join(thread, NULL): returns once the thread has returned
CloseJoin ==
    /\ pc["rend"] = "closing"
    /\ LET st == CloseProg[rend.cstep + 1] IN
       /\ st.op = "join"
       /\ pc[st.arg] = "done"
       /\ pc' = [pc EXCEPT !["rend"] = AfterCStep(rend.cstep + 1)]
    /\ rend' = [rend EXCEPT !.cstep = @ + 1]
    /\ UNCHANGED <<has_stream, src, tb, q, input_stall, thread_abort, db, slots, in_pkt,
                   dec, vs, as, swr, start_time, paused, eof_flag, hist>>

\* a flush that makes the queue as new, flags included
PacketQueueFlushResets(qu) == [PacketQueueInit EXCEPT !.length = -1]

\* _packet_queue_flush: while(q->length--) pops and frees the first item
PacketQueueFlush(qu) == [qu EXCEPT !.items = <<>>, !.length = -1]

\* _packet_queue_free(av, q) and the frees of the stream's buffers and contexts
CloseFree ==
    /\ pc["rend"] = "closing"
    /\ LET st == CloseProg[rend.cstep + 1] IN
       /\ st.op = "free"
       /\ q' = [q EXCEPT ![st.arg] = PacketQueueFlush(q[st.arg])]
       /\ \E w \in CondSignal("av") : pc' = Step("rend", AfterCStep(rend.cstep + 1), w)
    /\ rend' = [rend EXCEPT !.cstep = @ + 1]
    /\ UNCHANGED <<has_stream, src, tb, input_stall, thread_abort, db, slots, in_pkt,
                   dec, vs, as, swr, start_time, paused, eof_flag, hist>>

----------------------------------------------------------------------------
(* The specifications: a kind of source file, and the calls the renderer    *)
(* makes.  The worker threads are the same in all of them.                  *)

Both == [s \in Streams |-> TRUE]
VideoOnly == [s \in Streams |-> s = "video"]
AudioOnly == [s \in Streams |-> s = "audio"]

\* 1:1 rates: a picture per output frame, tolerance 10 samples, 4 samples per block
Rates == [video |-> 1, vout |-> 1, audio |-> 500, aout |-> 500, ofs |-> 4, delay |-> 0]

FromZero == [s \in Streams |-> 0]

InputNext == InLoop \/ InReadError \/ InWrite \/ InEof

DecNext(s) == DecLoop(s) \/ DecRead(s) \/ DecSend(s) \/ DecBack(s) \/ DecWrite(s)
              \/ DecReady(s) \/ DecExit(s)

VideoNext == VsFlip \/ VsRep \/ VsBack \/ VsWrite \/ VsReady \/ VsExit

AudioNext == AsFlip \/ AsBack \/ AsWrite \/ AsReady \/ AsExit

CloseNext == CloseStart \/ CloseAbortQueue \/ CloseAbortBuffer \/ CloseJoin \/ CloseFree

\* the source files of the general specification: an audio packet carries
\* timestamp 0, a video packet 0 or 1 (a picture to repeat), and a packet is
\* of 8 MiB or, larger than a whole queue, of 16 MiB
SpecTapes ==
    {t \in Tapes(MaxPkts, Streams, {8 * Mi, 16 * Mi}, {0, 1}, {2}, {FALSE}) :
        \A i \in DOMAIN t : t[i].stream = "audio" => t[i].pts = 0}

\* a file opened with both streams or with one of them, played from its start;
\* the renderer reads, asks for eof and closes
Init ==
    \E hs \in {Both, VideoOnly, AudioOnly} :
        InitWith(hs, SpecTapes, {Rates}, {FromZero}, 0, {})

Next ==
    \/ InputNext
    \/ DecNext("video") \/ DecNext("audio")
    \/ VideoNext
    \/ AudioNext
    \/ ReadVideo \/ RendFlip("video") \/ ReadAudio \/ RendFlip("audio")
    \/ Eof
    \/ CloseNext

Spec == Init /\ [][Next]_vars

\* a file with a video stream only; the renderer reads pictures
InitVideo ==
    InitWith(VideoOnly, Tapes(VideoPkts, {"video"}, {6 * Mi}, 0..MaxPts, {0}, {FALSE}),
             {Rates}, {FromZero}, 0, {})

NextVideo ==
    \/ InputNext
    \/ DecNext("video")
    \/ VideoNext
    \/ ReadVideo \/ RendFlip("video")

SpecVideo == InitVideo /\ [][NextVideo]_vars

\* a file with a video stream only; the renderer reads pictures and closes
InitVideoClose ==
    InitWith(VideoOnly, Tapes(ClosePkts, {"video"}, {8 * Mi}, 0..MaxPts, {0}, {FALSE}),
             {Rates}, {FromZero}, 0, {})

NextVideoClose == NextVideo \/ CloseNext

SpecVideoClose == InitVideoClose /\ [][NextVideoClose]_vars

\* the same files, from a source that may answer EAGAIN
NextVideoAgain == NextVideoClose \/ InReadAgain

SpecVideoAgain == InitVideoClose /\ [][NextVideoAgain]_vars

\* timestamps of the audio packets (stream time base = output time base): after
\* a unit of 16 samples at 0, a unit at 13 is 3 samples late, one at 3 is 13
\* late, one at 31 is 15 early; after a pad of 15, one at 3 is in the past
AudioPts == {0, 3, 13, 15, 31}

\* samples in every audio packet
AudioNb == 16

\* 1:1 rates, tolerance 10 samples, blocks of 16 samples
AudioRates == [video |-> 1, vout |-> 1, audio |-> 500, aout |-> 500, ofs |-> AudioNb,
               delay |-> 0]

\* a file with an audio stream only; the renderer reads blocks
InitAudio ==
    InitWith(AudioOnly, Tapes(AudioPkts, {"audio"}, {8 * Mi}, AudioPts, {AudioNb}, {FALSE}),
             {AudioRates}, {FromZero}, 0, {})

NextAudio ==
    \/ InputNext
    \/ DecNext("audio")
    \/ AudioNext
    \/ ReadAudio \/ RendFlip("audio")

SpecAudio == InitAudio /\ [][NextAudio]_vars

\* samples the resampler holds back while it is given input
SwrDelay == 4

\* the same files, with a resampler that has a look-ahead
InitAudioDelay ==
    InitWith(AudioOnly, Tapes(AudioPkts, {"audio"}, {8 * Mi}, AudioPts, {AudioNb}, {FALSE}),
             {[AudioRates EXCEPT !.delay = SwrDelay]}, {FromZero}, 0, {})

SpecAudioDelay == InitAudioDelay /\ [][NextAudio]_vars

\* a file with an audio stream only, some of whose packets the codec rejects
InitAudioError ==
    InitWith(AudioOnly, Tapes(AudioPkts, {"audio"}, {8 * Mi}, {0}, {AudioNb}, BOOLEAN),
             {AudioRates}, {FromZero}, 0, {})

SpecAudioError == InitAudioError /\ [][NextAudio]_vars

\* a file with a video stream only; the renderer reads pictures and presses keys
InitVideoKeys ==
    InitWith(VideoOnly, Tapes(KeyPkts, {"video"}, {8 * Mi}, {0, 1}, {0}, {FALSE}),
             {Rates}, {FromZero}, MaxKeys, {"space", "fwd", "rwd"})

NextVideoKeys == NextVideo \/ SeekVideo \/ SeekAudio

SpecVideoKeys == InitVideoKeys /\ [][NextVideoKeys]_vars

\* a file of a audio packets followed by k video packets of 8 MiB, the video
\* timestamps counting from p
StarveTape(a, k, p) ==
    [i \in 1..(a + k) |->
        IF i <= a
        THEN [id |-> i, stream |-> "audio", size |-> 8 * Mi, pts |-> 0, nb |-> 2, bad |-> FALSE]
        ELSE [id |-> i, stream |-> "video", size |-> 8 * Mi, pts |-> p + i - a - 1, nb |-> 0, bad |-> FALSE]]

\* a file with both streams that starts with a run of pictures and no sound,
\* or with one block of sound and one picture
InitStarve ==
    InitWith(Both, {StarveTape(0, StarvePkts, 1), StarveTape(1, 1, 1)},
             {Rates}, {FromZero}, 0, {})

NextStarve ==
    \/ InputNext
    \/ DecNext("video") \/ DecNext("audio")
    \/ VideoNext
    \/ AudioNext
    \/ ReadVideo \/ RendFlip("video")
    \/ ReadAudio \/ RendFlip("audio")

SpecStarve == InitStarve /\ [][NextStarve]_vars

\* a file of one picture to be repeated, a video packet the codec rejects,
\* k more video packets of 8 MiB, then one audio packet
ErrorTape(k) ==
    [i \in 1..(k + 3) |->
        IF i = k + 3
        THEN [id |-> i, stream |-> "audio", size |-> 8 * Mi, pts |-> 0, nb |-> 2, bad |-> FALSE]
        ELSE [id |-> i, stream |-> "video", size |-> 8 * Mi, pts |-> i, nb |-> 0, bad |-> (i = 2)]]

\* a file with both streams and a video packet that fails to decode; the
\* renderer reads pictures and blocks
InitError ==
    InitWith(Both, {ErrorTape(k) : k \in 0..ErrPkts}, {Rates}, {FromZero}, 0, {})

SpecError == InitError /\ [][NextStarve]_vars

\* a file of two pictures with the same timestamp p, then two audio packets
\* with the same timestamp: the second of each pair is in the past
StaleTape(p) ==
    [i \in 1..4 |->
        IF i <= 2
        THEN [id |-> i, stream |-> "video", size |-> 6 * Mi, pts |-> p, nb |-> 0, bad |-> FALSE]
        ELSE [id |-> i, stream |-> "audio", size |-> 6 * Mi, pts |-> 0, nb |-> 2, bad |-> FALSE]]

\* a file with both streams and units in the past; the renderer reads
\* pictures and blocks
InitStale ==
    InitWith(Both, {StaleTape(StalePts)}, {Rates}, {FromZero}, 0, {})

SpecStale == InitStale /\ [][NextStarve]_vars

\* a file of one picture, on time or to be repeated, then k audio packets
PauseTape(p, k) ==
    [i \in 1..(k + 1) |->
        IF i = 1
        THEN [id |-> i, stream |-> "video", size |-> 8 * Mi, pts |-> p, nb |-> 0, bad |-> FALSE]
        ELSE [id |-> i, stream |-> "audio", size |-> 8 * Mi, pts |-> 0, nb |-> 2, bad |-> FALSE]]

\* a file with both streams; the renderer reads pictures and blocks and
\* pauses and resumes with the space key
InitPause ==
    InitWith(Both, {PauseTape(1, PausePkts)},
             {Rates}, {FromZero}, MaxKeys, {"space"})

SpecPause == InitPause /\ [][NextStarve]_vars

----------------------------------------------------------------------------
(* C1. Packet queue FIFO: the packets read from a queue, followed by the    *)
(* packets still in it, are exactly the packets written to it, in the order *)
(* they were written: none reordered, duplicated, merged or skipped.        *)

Ids(items) == [i \in 1..Len(items) |-> items[i].id]

QueueIsFifo ==
    \A s \in Streams : hist.readlog[s] \o Ids(q[s].items) = hist.written[s]

\* a packet has been read and two more are queued behind it
QueueFifoWitness == Len(q["video"].items) = 2 /\ Len(hist.readlog["video"]) = 1

----------------------------------------------------------------------------
(* C2. Packet queue capacity: the size of a queue never exceeds             *)
(* MAX_QUEUE_SIZE: no packet is added while size + packet size + the        *)
(* per-entry overhead exceeds the ceiling.                                  *)

QueueWithinCapacity == \A s \in Streams : q[s].size <= MAX_QUEUE_SIZE

\* the input thread waits for room: the queue holds a packet of 8 MiB and the
\* next one does not fit
QueueCapacityWitness ==
    /\ pc["input"] = "in_wait" /\ input_stall = 1
    /\ q["video"].length = 1
    /\ q["video"].size + in_pkt.size + PACKET_QUEUE_ITEM_SIZE > MAX_QUEUE_SIZE

----------------------------------------------------------------------------
(* C3. Shutdown terminates: close() called in any reachable state returns.  *)
(* In a behaviour that ends, it ends after close has returned: while close  *)
(* runs, some thread can still take a step.                                 *)

CloseNotStuck == pc["rend"] = "closing" => ENABLED Next

----------------------------------------------------------------------------
(* C4. Double buffer, at most one unread unit.  As stated: publishes minus  *)
(* takes never exceeds 1 on any buffer.  That fails once a buffer is        *)
(* aborted, because _frame_dbuffer_ready then no longer waits.              *)

DbufferSinglePublish == \A b \in Buffers : hist.unread[b] <= 1

\* C4, with its condition: while the abort flag of a buffer is not set,
\* publishes minus takes is the ready flag, so it never exceeds 1, and a
\* publish on a buffer whose ready flag is set has not happened.
DbufferSinglePublishUnlessAbort ==
    \A b \in Buffers : db[b].abort = 0 => hist.unread[b] = db[b].ready /\ db[b].ready \in {0, 1}

\* the scaler's publish waits: the previous unit has not been taken
DbufferPublishWaits ==
    /\ pc["vscaler"] \in {"vs_pwait", "vs_rwait"}
    /\ db["out_video"].ready = 1 /\ db["out_video"].abort = 0
    /\ hist.unread["out_video"] = 1

----------------------------------------------------------------------------
(* C5. Double buffer, no torn frame: from one take to the next the slot the *)
(* consumer holds is not the slot the producer writes, it is complete, and  *)
(* its content is the content the consumer took.                            *)

\* the slot the producer of buffer b is writing, -1 when it is not writing
WriteSlot(b) ==
    CASE b = "in_video"  -> IF pc["vdec"] = "dec_write" THEN dec["video"].wslot ELSE -1
      [] b = "in_audio"  -> IF pc["adec"] = "dec_write" THEN dec["audio"].wslot ELSE -1
      [] b = "out_video" -> IF pc["vscaler"] = "vs_write" THEN vs.wslot ELSE -1
      [] b = "out_audio" -> IF pc["ascaler"] = "as_write" THEN as.wslot ELSE -1

DbufferNoTornFrame ==
    \A b \in Buffers :
        hist.held[b] # -1 =>
            /\ WriteSlot(b) # hist.held[b]
            /\ slots[b][hist.held[b]] # HALF
            /\ slots[b][hist.held[b]] = hist.last[b].c

\* the decoder writes one slot while the scaler holds the other
DbufferNoTornWitness ==
    /\ hist.held["in_video"] # -1
    /\ WriteSlot("in_video") # -1
    /\ slots["in_video"][WriteSlot("in_video")] = HALF

----------------------------------------------------------------------------
(* C6. Double buffer, repeat: a take of a unit published with repeat = 1    *)
(* leaves the slots unswapped and returns the frame of the previous take.   *)

DbufferRepeatKeepsFrame ==
    \A b \in Buffers :
        (hist.last[b].repeat = 1 /\ hist.prev[b].slot # -1) =>
            /\ hist.last[b].slot = hist.prev[b].slot
            /\ hist.last[b].c = hist.prev[b].c

\* the renderer took a picture and then a repeat of it
DbufferRepeatWitness ==
    /\ hist.last["out_video"].repeat = 1
    /\ hist.prev["out_video"].slot # -1
    /\ hist.prev["out_video"].c # EMPTY

----------------------------------------------------------------------------
(* C7. Video frame-rate conversion: for a picture taken with offset         *)
(* d = pts - video_start_time >= 0 the scaler publishes d repeats and then  *)
(* one picture, and video_start_time advances by d + 1.  So pts 0,1,2 give  *)
(* three publishes without a repeat and pts 0,2 give picture, repeat,       *)
(* picture.                                                                 *)

\* n repeats followed by one picture (1: repeat, 0: picture)
RepeatsThenPicture(n) == [i \in 1..(n + 1) |-> IF i <= n THEN 1 ELSE 0]

IsPrefix(a, b) == Len(a) <= Len(b) /\ \A i \in 1..Len(a) : a[i] = b[i]

\* the scaler is between two pictures
VsBetweenUnits == pc["vscaler"] \in {"vs_flip", "vs_fwait", "vs_exit", "done"}

VideoRateConversion ==
    /\ hist.vunit.d >= 0 =>
          /\ IsPrefix(hist.vunit.log, RepeatsThenPicture(hist.vunit.d))
          /\ hist.vunit.adv = Len(hist.vunit.log)
          /\ VsBetweenUnits => /\ hist.vunit.log = RepeatsThenPicture(hist.vunit.d)
                               /\ hist.vunit.adv = hist.vunit.d + 1
    /\ start_time["video"] = Len(hist.vlog)
    /\ (VsBetweenUnits /\ hist.vpts = <<0, 1, 2>>) => hist.vlog = <<0, 0, 0>>
    /\ (VsBetweenUnits /\ hist.vpts = <<0, 2>>) => hist.vlog = <<0, 1, 0>>

\* pts 0 and 2 have been converted
VideoRateWitness ==
    VsBetweenUnits /\ hist.vpts = <<0, 2>> /\ hist.vlog = <<0, 1, 0>> /\ hist.vunit.d = 1

----------------------------------------------------------------------------
(* C8. Audio drift correction, trim example.  As stated: a unit with offset *)
(* d = -3 and tolerance 10 is fed to the resampler without its 3 leading    *)
(* samples.  The code trims only when d < -tolerance.                       *)

\* the entries of the current unit's history that feed samples to the resampler
Feeds == {i \in 1..Len(hist.aunit.ev) : hist.aunit.ev[i].k = "feed"}

AudioTrimExample ==
    (hist.aunit.d = -3 /\ AllowedError = 10) =>
        \A i \in Feeds : /\ hist.aunit.ev[i].from = 3
                         /\ hist.aunit.ev[i].n = hist.aunit.nb - 3

\* C8, as the code does it: a unit that is late by more than the tolerance is
\* fed without its -d leading samples; a unit within the tolerance, such as
\* d = -3 with tolerance 10, is fed whole.
AudioTrimBeyondTolerance ==
    /\ \A i \in Feeds :
          LET from == IF hist.aunit.d < -AllowedError THEN -hist.aunit.d ELSE 0 IN
          /\ hist.aunit.ev[i].from = from
          /\ hist.aunit.ev[i].n = hist.aunit.nb - from
    /\ (hist.aunit.d = -3 /\ AllowedError = 10) =>
          \A i \in Feeds : hist.aunit.ev[i].from = 0 /\ hist.aunit.ev[i].n = hist.aunit.nb

\* a unit 3 samples late, tolerance 10, has been fed whole
AudioTrimWitness ==
    /\ hist.aunit.d = -3 /\ AllowedError = 10
    /\ \E i \in Feeds : hist.aunit.ev[i].from = 0 /\ hist.aunit.ev[i].n = AudioNb

----------------------------------------------------------------------------
(* C9. Audio drift correction, pad: for a unit whose offset d exceeds the   *)
(* tolerance, d samples of silence are injected and audio_start_time        *)
(* advances by d, before any sample of the unit is fed to the resampler.    *)

----------------------------------------------------------------------------
(* C10. is_eof() returns true if and only if every opened stream has its    *)
(* EOF flag set (a stream that was not opened counts as satisfied); the     *)
(* flags are never cleared, so once it has returned true it returns true in *)
(* every later state.                                                       *)

AllOpenedAtEof == \A s \in Streams : has_stream[s] => eof_flag[s] = 1

EofIffAllStreams ==
    /\ [](AvFfmpegEof = 1 <=> AllOpenedAtEof)
    /\ [](rend.eof = 1 => AvFfmpegEof = 1)
    /\ [][\A s \in Streams : eof_flag[s] = 1 => eof_flag'[s] = 1]_vars
    /\ [][rend.eof' # rend.eof => rend.eof' = (IF AllOpenedAtEof THEN 1 ELSE 0)]_vars

\* both streams are opened and at their end, and is_eof() has returned true
EofWitness ==
    /\ has_stream["video"] /\ has_stream["audio"]
    /\ eof_flag["video"] = 1 /\ eof_flag["audio"] = 1
    /\ rend.eof = 1

----------------------------------------------------------------------------
(* C11. When the pipeline is not paused and the take on the outbound buffer *)
(* yields null, read_video (read_audio) sets the stream's EOF flag and      *)
(* returns null without touching the null result, also in the window that   *)
(* follows un-pausing: the renderer never dereferences the null frame.      *)

ReadNullIsNotTouched == pc["rend"] # "crashed"

----------------------------------------------------------------------------
(* C12. Forward progress under backpressure: the pipeline never reaches a   *)
(* state in which the input thread is blocked on one full packet queue      *)
(* while the renderer is blocked waiting for a unit of the other stream,    *)
(* whose queue is empty.  Stated here for the video queue and the audio     *)
(* stream, and only for the states in which no video thread can run either, *)
(* so that the queue stays full until the renderer returns, and in which    *)
(* nothing has ended or been aborted.                                       *)

NoStarvedPull ==
    ~ /\ pc["input"] = "in_wait" /\ in_pkt.stream = "video" /\ input_stall = 1
      /\ pc["rend"] = "r_await"
      /\ q["audio"].length = 0 /\ q["audio"].eof = 0
      /\ pc["vdec"] \in {"dec_bwait", "dec_pwait"}
      /\ pc["vscaler"] \in {"vs_rwait", "vs_bwait", "vs_pwait"}
      /\ thread_abort = 0
      /\ \A s \in Streams : q[s].abort = 0 /\ q[s].eof = 0 /\ eof_flag[s] = 0

----------------------------------------------------------------------------
(* C13. A fatal decode error on the video stream is treated like the end of *)
(* that stream and the audio stream keeps being delivered until the file is *)
(* exhausted: eof is never reported on both streams while the input thread  *)
(* is still blocked with audio packets of the file left to deliver.         *)

DecodeErrorKeepsOther ==
    ~ /\ pc["vdec"] = "done" /\ dec["video"].pkt.bad
      /\ \A s \in Streams : eof_flag[s] = 1
      /\ pc["input"] = "in_wait"
      /\ \E i \in DOMAIN src : src[i].stream = "audio"

----------------------------------------------------------------------------
(* C14. Every packet accepted into a queue is released exactly once, also   *)
(* when close() arrives while a decode thread holds a packet it is          *)
(* retrying: a decode thread that has ended holds no unreleased packet.     *)

NoPacketLeftHeld ==
    \A s \in Streams : pc[DecThread(s)] = "done" => dec[s].ppkt # "pkt"

----------------------------------------------------------------------------
(* C15. A write to an aborted queue: _packet_queue_write of a packet to a   *)
(* queue whose abort flag is set discards the packet and returns -2, and    *)
(* the queue's length, size and contents are unchanged.                     *)

WriteOnAbortDiscards ==
    [][(/\ pc["input"] = "in_write" /\ pc'["input"] # "in_write"
        /\ q[in_pkt.stream].abort = 1)
       => /\ PacketQueueWriteResult(q[in_pkt.stream]) = -2
          /\ q' = q
          /\ in_pkt' = NoPkt
          /\ hist'.written = hist.written]_vars

\* a packet was taken from the file and is neither in the hands of the input
\* thread nor among the packets the aborted queue accepted
WriteOnAbortWitness ==
    /\ q["video"].abort = 1
    /\ in_pkt = NoPkt
    /\ src # <<>>
    /\ Head(src).id - 1 > Len(hist.written["video"])

----------------------------------------------------------------------------
(* C16. _packet_queue_read reports EOF only when the queue is empty and its *)
(* eof flag is set, so that every packet written has been read by then; on  *)
(* an empty queue with the stall flag set it returns at once with "empty,   *)
(* try later" (0 and no packet), neither EOF nor a wait.                    *)

ReadReportsEofAtEnd ==
    [][\A s \in Streams :
         LET t == DecThread(s) IN
         (pc[t] = "dec_read" /\ pc'[t] # "dec_read")
         => /\ (pc'[t] = "dec_send" /\ dec'[s].ppkt = "NULL")
                 => /\ q[s].length = 0 /\ q[s].eof = 1
                    /\ hist.readlog[s] = hist.written[s]
            /\ (q[s].length = 0 /\ input_stall # 0)
                 => /\ pc'[t] = "dec_send" /\ dec'[s].ppkt = "stale"
                    /\ q' = q]_vars

\* the read has reported EOF after the packets of the file were read
ReadEofWitness ==
    /\ pc["vdec"] = "dec_send" /\ dec["video"].ppkt = "NULL"
    /\ hist.readlog["video"] # <<>>
    /\ q["video"].abort = 0

----------------------------------------------------------------------------
(* C17. While paused the renderer advances nothing: read_video returns the  *)
(* front frame of out_video_buffer and read_audio returns NULL, neither     *)
(* inside a take nor with any change to a double buffer (ready flag, front  *)
(* and back frames), to a frame or to an EOF flag.                          *)

RendStep == pc'["rend"] # pc["rend"] \/ rend' # rend

PausedReadAdvancesNothing ==
    /\ [](paused # 0 => pc["rend"] \in {"r_idle", "r_seekv", "r_seeka"})
    /\ [][(RendStep /\ paused' # 0 /\ pc'["rend"] = "r_idle")
          => /\ db' = db /\ slots' = slots /\ eof_flag' = eof_flag /\ hist' = hist
             /\ rend'.aret # rend.aret => rend'.aret = "null"
             /\ rend'.last_paused # 0
                  => rend'.vret = "frame" /\ rend'.vslot = FrontFrame(db["out_video"])]_vars

\* paused after a picture was taken: read_video has returned the front frame
\* again and read_audio has returned NULL, with a picture and a block ready
PausedReadWitness ==
    /\ paused # 0 /\ pc["rend"] = "r_idle"
    /\ rend.vret = "frame" /\ rend.aret = "null"
    /\ hist.held["out_video"] = rend.vslot
    /\ db["out_video"].ready = 1 /\ db["out_audio"].ready = 1

----------------------------------------------------------------------------
(* C18. The order of close(): the global abort flag, then the abort of both *)
(* packet queues, then the join of the input thread; then for each opened   *)
(* stream the abort of its inbound and of its outbound buffer, the join of  *)
(* its decode thread and of its scaler thread, and only then the flush of   *)
(* its queue and the freeing of its buffers.  Nothing is freed while a      *)
(* thread that uses it is still running.                                    *)

\* close() has made the call `op` on `arg`
CloseDid(op, arg) ==
    /\ pc["rend"] \in {"closing", "closed"}
    /\ \E i \in 1..rend.cstep : i <= Len(CloseProg) /\ CloseProg[i] = CStep(op, arg)

ScalerThread(s) == IF s = "video" THEN "vscaler" ELSE "ascaler"

CloseInOrder ==
    /\ pc["rend"] \in {"closing", "closed"} => thread_abort = 1
    /\ \A s \in Streams : q[s].abort = 1 => thread_abort = 1 /\ CloseDid("abort_queue", s)
    /\ CloseDid("abort_queue", "audio") => CloseDid("abort_queue", "video")
    /\ CloseDid("join", "input")
         => pc["input"] = "done" /\ \A s \in Streams : CloseDid("abort_queue", s)
    /\ \A s \in Streams :
         /\ CloseDid("abort_buffer", InBuf(s)) => has_stream[s] /\ CloseDid("join", "input")
         /\ CloseDid("abort_buffer", OutBuf(s)) => CloseDid("abort_buffer", InBuf(s))
         /\ CloseDid("join", DecThread(s))
              => pc[DecThread(s)] = "done" /\ CloseDid("abort_buffer", OutBuf(s))
         /\ CloseDid("join", ScalerThread(s))
              => pc[ScalerThread(s)] = "done" /\ CloseDid("join", DecThread(s))
         /\ (CloseDid("free", s) \/ q[s].length < 0)
              => /\ CloseDid("join", ScalerThread(s))
                 /\ \A t \in {"input", DecThread(s), ScalerThread(s)} : pc[t] = "done"

\* close() has returned for a file with both streams whose packet was read
CloseInOrderWitness ==
    /\ pc["rend"] = "closed"
    /\ \A s \in Streams : has_stream[s] /\ q[s].length < 0
    /\ \E s \in Streams : hist.readlog[s] # <<>>

----------------------------------------------------------------------------
(* C19. The abort flag of every packet queue and of every double buffer,    *)
(* and the eof flag of every packet queue, are one-way: no step of any      *)
(* thread (write, read, publish, take, flush) brings a flag that is 1 back  *)
(* to 0.                                                                    *)

FlagsAreOneWay ==
    [][/\ \A s \in Streams : (q[s].abort = 1 => q'[s].abort = 1)
       /\ \A s \in Streams : (q[s].eof = 1 => q'[s].eof = 1)
       /\ \A b \in Buffers : (db[b].abort = 1 => db'[b].abort = 1)]_vars

\* a queue that was written, read, ended, aborted and then flushed, and the
\* aborted buffers of its stream after close() has returned
FlagsOneWayWitness ==
    /\ pc["rend"] = "closed"
    /\ q["video"].eof = 1 /\ q["video"].abort = 1 /\ q["video"].length < 0
    /\ hist.readlog["video"] # <<>>
    /\ db["in_video"].abort = 1 /\ db["out_video"].abort = 1
    /\ hist.last["out_video"].slot >= 0

----------------------------------------------------------------------------
(* C20. A forward or rewind seek made through read_video adds the same      *)
(* offset, +60 or -60, to video_start_time and to audio_start_time and      *)
(* changes nothing else: each of its two updates leaves the start time it   *)
(* writes at its value before the update plus the offset, the other start   *)
(* time as it is, and the packet queues, the double buffers and the frames  *)
(* untouched.                                                               *)

SeekAddsOffsetToBoth ==
    [][(pc["rend"] \in {"r_seekv", "r_seeka"} /\ pc'["rend"] # pc["rend"])
       => LET s == IF pc["rend"] = "r_seekv" THEN "video" ELSE "audio" IN
          /\ start_time' = [start_time EXCEPT ![s] = @ + rend.nav]
          /\ q' = q /\ db' = db /\ slots' = slots]_vars

----------------------------------------------------------------------------
(* C21. No lost wakeup on the packet queues: no decode thread stays blocked *)
(* in _packet_queue_read for ever while its queue holds a packet, also when *)
(* the other decode thread waits on the shared condition variable.  Stated  *)
(* for the states in which no thread can take a step any more, so that the  *)
(* blocked thread is never signalled again.                                 *)

NoLostWakeup ==
    ~ /\ \E s \in Streams :
            /\ pc[DecThread(s)] = "dec_rwait"
            /\ q[s].length > 0
            /\ q[s].abort = 0
      /\ thread_abort = 0
      /\ ~ ENABLED NextStarve

----------------------------------------------------------------------------
(* C22. Abort reaches every waiter: once the abort flag of a packet queue   *)
(* is set, a thread blocked in a write or a read on that queue returns      *)
(* without any further operation of another thread.  Stated for the states  *)
(* in which no thread can take a step: none of them has a thread still      *)
(* waiting on an aborted queue.                                             *)

AbortReachesWaiters ==
    ~ /\ \E s \in Streams :
            /\ q[s].abort = 1
            /\ \/ pc[DecThread(s)] = "dec_rwait"
               \/ pc["input"] = "in_wait" /\ in_pkt.stream = s
      /\ ~ ENABLED Next

----------------------------------------------------------------------------
(* C23. Packet queue bookkeeping: in every reachable state, after any       *)
(* sequence of write, read, abort and flush, length is the number of        *)
(* packets the queue holds and is never negative, and size is the sum of    *)
(* their sizes plus the per-item overhead; so after a flush both are 0.     *)

RECURSIVE QueueBytes(_)
QueueBytes(items) ==
    IF items = <<>> THEN 0
    ELSE Head(items).size + PACKET_QUEUE_ITEM_SIZE + QueueBytes(Tail(items))

QueueBookkeeping ==
    \A s \in Streams :
        /\ q[s].length = Len(q[s].items)
        /\ q[s].length >= 0
        /\ q[s].size = QueueBytes(q[s].items)

----------------------------------------------------------------------------
(* C24. End-of-stream propagation: once the file is exhausted and the       *)
(* renderer keeps reading unpaused, with no close(), the eof of both queues *)
(* reaches the decode threads, the scaler threads exit, each read returns   *)
(* NULL and _av_ffmpeg_eof becomes 1.  Stated for the states in which no    *)
(* thread can take a step: when all the packets of the file were queued and *)
(* both queues have eof set, such a state has both EOF flags raised.        *)

EndOfStreamReachesRenderer ==
    (/\ src = <<>> /\ pc["input"] = "done"
     /\ \A s \in Streams : q[s].eof = 1 /\ Len(hist.written[s]) > 0
     /\ ~ ENABLED NextStarve)
    => AvFfmpegEof = 1

----------------------------------------------------------------------------
(* C25. Audio tolerance band: the audio scaler trims a unit if and only if  *)
(* its offset d is below -tolerance, dropping exactly -d leading samples,   *)
(* and pads if and only if d is above the tolerance; a unit with            *)
(* -tolerance <= d <= tolerance and d + nb_samples > 0 is fed whole to the  *)
(* resampler and audio_start_time is not adjusted before it is fed.         *)

AudioToleranceBand ==
    LET d == hist.aunit.d
        ev == hist.aunit.ev
        from == IF d < -AllowedError THEN -d ELSE 0
    IN
    /\ \A i \in Feeds : ev[i].from = from /\ ev[i].n = hist.aunit.nb - from
    /\ (\E i \in DOMAIN ev : ev[i].k = "silence") <=> d > AllowedError
    /\ (d >= -AllowedError /\ d <= AllowedError /\ d + hist.aunit.nb > 0)
         => /\ ev # <<>> => ev[1].k = "feed"
            /\ \A i \in Feeds : ev[i].from = 0 /\ ev[i].n = hist.aunit.nb

\* a unit 3 samples early, tolerance 10, has been fed whole with no silence
AudioBandWitness ==
    /\ hist.aunit.d = 3 /\ AllowedError = 10
    /\ hist.aunit.ev # <<>>
    /\ hist.aunit.ev[1] = [k |-> "feed", n |-> AudioNb, from |-> 0]

----------------------------------------------------------------------------
(* C26. Audio clock advance: for every unit that is not discarded,          *)
(* audio_start_time advances by exactly the number of samples fed to the    *)
(* resampler (nb_samples less the trimmed ones), exactly once for the unit, *)
(* however many output blocks the resampler yields for it.                  *)

\* the entries that advance audio_start_time after the unit's samples were fed
AdvancesAfterFeed ==
    {i \in 1..Len(hist.aunit.ev) :
        hist.aunit.ev[i].k = "advance" /\ \E j \in Feeds : j < i}

AudioClockAdvance ==
    /\ Cardinality(Feeds) <= 1
    /\ Cardinality(AdvancesAfterFeed) <= 1
    /\ \A i \in AdvancesAfterFeed : \A j \in Feeds : hist.aunit.ev[i].n = hist.aunit.ev[j].n
    /\ (Feeds # {} /\ pc["ascaler"] \in {"as_flip", "as_fwait", "as_exit", "done"})
         => AdvancesAfterFeed # {}

----------------------------------------------------------------------------
(* C27. Stale units are discarded without side effect: when a scaler takes  *)
(* a picture whose rescaled offset is negative, or an audio unit with       *)
(* d + nb_samples <= 0, it publishes nothing on the outbound buffer, leaves *)
(* the start times unchanged and goes on to take the next unit.             *)

\* the scaler of stream s takes a unit from its inbound buffer in this step
ScalerTakes(s) == db[InBuf(s)].ready = 1 /\ db'[InBuf(s)].ready = 0

StaleIsDiscarded ==
    [][/\ (ScalerTakes("video") /\ VideoOffset(vs'.frame) < 0)
           => /\ pc'["vscaler"] = "vs_flip"
              /\ db'["out_video"] = db["out_video"] /\ slots' = slots
              /\ start_time' = start_time
              /\ hist'.unread["out_video"] = hist.unread["out_video"]
       /\ (ScalerTakes("audio") /\ AudioOffset(as'.frame) + as'.frame.nb <= 0)
           => /\ pc'["ascaler"] = "as_flip"
              /\ db'["out_audio"] = db["out_audio"] /\ slots' = slots
              /\ start_time' = start_time /\ swr' = swr
              /\ hist'.unread["out_audio"] = hist.unread["out_audio"]]_vars

\* both scalers have discarded a unit and wait for the next
StaleDiscardWitness ==
    /\ pc["vscaler"] \in {"vs_flip", "vs_fwait"}
    /\ Len(hist.vpts) = 2 /\ VideoOffset(vs.frame) < 0
    /\ pc["ascaler"] \in {"as_flip", "as_fwait"}
    /\ hist.aunit.ev = <<Ev("skip", 0)>>

----------------------------------------------------------------------------
(* C28. In both decode threads a terminal status of the decoder (EOF or a   *)
(* fatal error), returned when a packet is sent or when a frame is          *)
(* received, stops the loop, and the inbound buffer is then aborted.  For   *)
(* the send: a thread that sends a packet the codec rejects leaves its loop *)
(* in that iteration.                                                       *)

TerminalStatusStopsLoop ==
    [][\A s \in Streams :
         LET t == DecThread(s) IN
         (/\ pc[t] = "dec_send" /\ pc'[t] # "dec_send"
          /\ dec[s].ppkt = "pkt" /\ dec[s].pkt.bad /\ ~dec[s].draining)
         => pc'[t] = "dec_exit"]_vars

----------------------------------------------------------------------------
(* av_ffmpeg_open from "Start the threads" on.  The caller is the renderer's *)
(* thread; a thread that was not created is "off".  hist.inited holds the    *)
(* queues and double buffers whose init function has been called.           *)

Workers == Threads \ {"rend"}

\* the first statement of a thread's function
StartPc(t) ==
    CASE t = "input" -> "in_loop"
      [] t \in {"vdec", "adec"} -> "dec_loop"
      [] t = "vscaler" -> "vs_flip"
      [] OTHER -> "as_flip"

\* the queues and double buffers a thread's function works on
Uses(t) ==
    CASE t = "input" -> {"video_queue", "audio_queue"}
      [] t = "vdec" -> {"video_queue", "in_video"}
      [] t = "vscaler" -> {"in_video", "out_video"}
      [] t = "adec" -> {"audio_queue", "in_audio"}
      [] OTHER -> {"in_audio", "out_audio"}

\* where av_ffmpeg_open goes on after the pthread_create of t
OpenAfter(t) ==
    CASE t = "vdec" -> "open_vscaler"
      [] t = "vscaler" -> "open_audio"
      [] t = "adec" -> "open_ascaler"
      [] t = "ascaler" -> "open_input"
      [] OTHER -> "r_idle"

OpenPc(t) ==
    CASE t = "vdec" -> "open_vdec"
      [] t = "vscaler" -> "open_vscaler"
      [] t = "adec" -> "open_adec"
      [] t = "ascaler" -> "open_ascaler"
      [] OTHER -> "open_input"

\* thread_abort = 0, the mutex and the condition, _packet_queue_init of both queues
OpenQueues ==
    /\ pc["rend"] = "open_queues"
    /\ thread_abort' = 0
    /\ q' = [s \in Streams |-> PacketQueueInit]
    /\ hist' = [hist EXCEPT !.inited = @ \cup {"video_queue", "audio_queue"}]
    /\ pc' = [pc EXCEPT !["rend"] = "open_video"]
    /\ UNCHANGED <<has_stream, src, tb, input_stall, db, slots, in_pkt,
                   dec, vs, as, swr, start_time, paused, eof_flag, rend>>

\* an open that initialises the stream's input buffer only
OpenBuffersInOnly(s) ==
    /\ pc["rend"] = (IF s = "video" THEN "open_video" ELSE "open_audio")
    /\ IF has_stream[s]
       THEN /\ db' = [db EXCEPT ![InBuf(s)] = FrameDbufferInit]
            /\ hist' = [hist EXCEPT !.inited = @ \cup {InBuf(s)}]
            /\ pc' = [pc EXCEPT !["rend"] = OpenPc(DecThread(s))]
       ELSE /\ pc' = [pc EXCEPT !["rend"] = IF s = "video" THEN "open_audio" ELSE "open_input"]
            /\ UNCHANGED <<db, hist>>
    /\ UNCHANGED <<has_stream, src, tb, q, input_stall, thread_abort, slots, in_pkt,
                   dec, vs, as, swr, start_time, paused, eof_flag, rend>>

\* if(av->video_stream != NULL) / if(av->audio_stream != NULL):
\* _frame_dbuffer_init of the stream's two buffers, and the output frames
OpenBuffers(s) ==
    /\ pc["rend"] = (IF s = "video" THEN "open_video" ELSE "open_audio")
    /\ IF has_stream[s]
       THEN /\ db' = [db EXCEPT ![InBuf(s)] = FrameDbufferInit,
                                ![OutBuf(s)] = FrameDbufferInit]
            /\ hist' = [hist EXCEPT !.inited = @ \cup {InBuf(s), OutBuf(s)}]
            \* av_frame_get_buffer: if(r < 0) return(HACKTV_OUT_OF_MEMORY), audio only
            /\ \/ pc' = [pc EXCEPT !["rend"] = OpenPc(DecThread(s))]
               \/ s = "audio" /\ pc' = [pc EXCEPT !["rend"] = "open_failed"]
       ELSE /\ pc' = [pc EXCEPT !["rend"] = IF s = "video" THEN "open_audio" ELSE "open_input"]
            /\ UNCHANGED <<db, hist>>
    /\ UNCHANGED <<has_stream, src, tb, q, input_stall, thread_abort, slots, in_pkt,
                   dec, vs, as, swr, start_time, paused, eof_flag, rend>>

\* r = pthread_create(&av->..._thread, ...); if(r != 0) return(HACKTV_ERROR);
OpenCreate(t) ==
    /\ pc["rend"] = OpenPc(t)
    /\ \/ pc' = [pc EXCEPT ![t] = StartPc(t), !["rend"] = OpenAfter(t)]
       \/ pc' = [pc EXCEPT !["rend"] = "open_failed"]
    /\ UNCHANGED <<has_stream, src, tb, q, input_stall, thread_abort, db, slots, in_pkt,
                   dec, vs, as, swr, start_time, paused, eof_flag, rend, hist>>

OpenNext ==
    \/ OpenQueues
    \/ OpenBuffers("video") \/ OpenBuffers("audio")
    \/ \E t \in Workers : OpenCreate(t)

\* the structure as av_ffmpeg_open has it before it starts the threads
InitOpen ==
    /\ has_stream \in {Both, VideoOnly, AudioOnly}
    /\ src \in {StarveTape(1, 1, 1)}
    /\ tb = Rates
    /\ q = [s \in Streams |-> PacketQueueInit]
    /\ input_stall = 0
    /\ thread_abort = 0
    /\ db = [d \in Buffers |-> FrameDbufferInit]
    /\ slots = [d \in Buffers |-> [i \in 0..1 |-> EMPTY]]
    /\ pc = [t \in Threads |-> IF t = "rend" THEN "open_queues" ELSE "off"]
    /\ in_pkt = NoPkt
    /\ dec = [s \in Streams |-> DecInit]
    /\ vs = [frame |-> NoFrame, pts |-> 0, wslot |-> 0]
    /\ as = [frame |-> NoFrame, pts |-> 0, drop |-> 0, count |-> 0, r |-> 0, wslot |-> 0]
    /\ swr = 0
    /\ start_time = FromZero
    /\ paused = 0
    /\ eof_flag = [s \in Streams |-> 0]
    /\ rend = [eof |-> 0, vret |-> "none", vslot |-> -1, aret |-> "none", keys |-> 0,
               kb |-> {},
               last_paused |-> 0, cstep |-> 0, nav |-> 0, ld |-> 0]
    /\ hist = HistInit

NextOpen == OpenNext \/ NextStarve

SpecOpen == InitOpen /\ [][NextOpen]_vars

----------------------------------------------------------------------------
(* C29. The input thread sets eof on both packet queues on every path on    *)
(* which it ends (end of the file, read error, thread_abort) and on no      *)
(* other occasion: an EAGAIN from the source is retried and sets no eof,    *)
(* and no packet is added to a queue after its eof was set.                 *)

InputEofOnExit ==
    /\ [](/\ pc["input"] = "done" => \A s \in Streams : q[s].eof = 1
          /\ q["video"].eof = 1 => pc["input"] \in {"in_eofa", "done"}
          /\ q["audio"].eof = 1 => pc["input"] = "done")
    /\ [][/\ hist'.again # hist.again => q' = q /\ pc'["input"] = "in_loop"
          /\ \A s \in Streams :
                q[s].eof = 1 => /\ hist'.written[s] = hist.written[s]
                                /\ q'[s].length <= q[s].length]_vars

\* the input thread has ended on thread_abort, after an EAGAIN and a packet
\* written, with packets of the file unread and eof set on both queues
InputEofWitness ==
    /\ pc["input"] = "done" /\ thread_abort = 1 /\ src # <<>>
    /\ hist.again > 0 /\ hist.written["video"] # <<>>
    /\ \A s \in Streams : q[s].eof = 1

----------------------------------------------------------------------------
(* C30. In av_ffmpeg_open both packet queues are initialised before any     *)
(* thread is started, and a stream's two double buffers are initialised     *)
(* before the stream's decode and scaler threads are started; the input     *)
(* thread is started last, after the buffers of every stream of the file.   *)

----------------------------------------------------------------------------
(* C31. A decode thread passes to avcodec_send_packet, and unrefs, only a   *)
(* packet that _packet_queue_read took from the queue: after a read that    *)
(* returned 0 on input_stall without filling pkt, the thread's step of      *)
(* avcodec_send_packet and av_packet_unref is not taken with that pkt.      *)

FeedsOnlyDequeued ==
    [][\A s \in Streams :
         LET t == DecThread(s) IN
         (pc[t] = "dec_send" /\ (pc'[t] # pc[t] \/ dec'[s] # dec[s]))
            => dec[s].ppkt # "stale"]_vars

----------------------------------------------------------------------------
(* C32. No decoded frame is lost at the end of the stream: when the         *)
(* scaler's _frame_dbuffer_flip of the input buffer has returned NULL, and  *)
(* nothing was aborted by close(), every frame the decode thread published  *)
(* to that buffer before it aborted it has been returned by a flip.         *)

NoFrameLostAtEnd ==
    \A s \in Streams :
        (thread_abort = 0 /\ pc[ScalerThread(s)] \in {"vs_exit", "as_exit"})
            => hist.unread[InBuf(s)] = 0

----------------------------------------------------------------------------
(* C33. The first publish on out_video_buffer is never a repeat: the frame  *)
(* the renderer's last _frame_dbuffer_flip of out_video_buffer returned was *)
(* written by the scaler, and the first frame returned was published with   *)
(* repeat = 0.                                                              *)

FirstPublishNotRepeat ==
    LET l == hist.last["out_video"] IN
    l.slot # -1 =>
        /\ l.c.st = "full"
        /\ hist.prev["out_video"].slot = -1 => l.repeat = 0

----------------------------------------------------------------------------
(* C34. When av_ffmpeg_open returns a failure code no thread it started is  *)
(* left running: each of them was never created or has ended.               *)

OpenFailureStopsWorkers ==
    pc["rend"] = "open_failed" => \A t \in Workers : pc[t] \in {"off", "done"}

----------------------------------------------------------------------------
(* C35. No update of a clock is lost when the renderer's seek and the       *)
(* scaler thread write video_start_time concurrently: the clock, which      *)
(* starts at 0, is at every moment the number of increments the scaler has  *)
(* made (one for each publish to out_video_buffer) plus the sum of the seek *)
(* offsets the renderer has stored.                                         *)

ClockReflectsBoth == start_time["video"] = Len(hist.vlog) + hist.seeked

====
